---- MODULE Spec2Model ----
(***************************************************************************)
(* Model of scripts/archive_site.py: the Wayback archiver.                 *)
(*                                                                         *)
(* Strings are sequences of one-character strings, so that the string      *)
(* operations of the code (rstrip, split, startswith, "in", replace,       *)
(* endswith) are computed as Python computes them.  Python's None and the  *)
(* empty string are both falsy and the code never tells them apart; both   *)
(* are the empty sequence here.                                            *)
(***************************************************************************)
EXTENDS Integers, Sequences, FiniteSets, TLC

VARIABLES
    pc,             \* position of archive_site in the current run
    url,            \* archive_site's url argument (the seed)
    max_links,      \* archive_site's max_links argument
    installed,      \* WaybackMachineSaveAPI is not None (import succeeded)
    fetch,          \* how the seed fetch ended: "pending", "ok" or "failed"
    main_html,      \* the fetched seed page: its anchors in document order
    related_links,  \* result of extract_related_links; Unset before step 3
    extracted,      \* extract_related_links has been called in this run
    tier2_ran,      \* whether the fallback loop of extract_related_links ran
    idx,            \* index of the next related link in the for loop
    error,          \* the exception that ended archive_site, or "none"
    frame,          \* the running archive_with_wayback call, or Idle
    files,          \* names of the files in output_dir (manifest excluded)
    manifest,       \* lines of output_dir/archive_log.csv; <<>> = no file
    attempts,       \* history: the archive_with_wayback calls finished in this run
    writes,         \* history: how often each local file has been written
    returned,       \* history: how many calls returned each local file's path
    run,            \* number of the current run on this output directory
    runStart        \* history: files and manifest when the run started

vars == <<pc, url, max_links, installed, fetch, main_html, related_links, extracted,
          tier2_ran, idx, error, frame, files, manifest,
          attempts, writes, returned, run, runStart>>

-----------------------------------------------------------------------------
(* Bounds of the model. *)

MaxAnchors == 2     \* anchors on a page drawn for the link extractor
MaxLimit == 2       \* largest max_links drawn
MaxRuns == 2        \* runs of archive_site on one output directory

-----------------------------------------------------------------------------
(* Python string operations on sequences of characters. *)

Chars(s) == [i \in 1..Len(s) |-> SubSeq(s, i, i)]

Range(s) == {s[i] : i \in 1..Len(s)}

\* str.startswith
StartsWith(s, p) == Len(p) <= Len(s) /\ SubSeq(s, 1, Len(p)) = p

\* str.endswith
EndsWith(s, p) == Len(p) <= Len(s) /\ SubSeq(s, Len(s) - Len(p) + 1, Len(s)) = p

\* sub in s
Contains(s, sub) ==
    \E i \in 1..(Len(s) - Len(sub) + 1) : SubSeq(s, i, i + Len(sub) - 1) = sub

\* s.rstrip(c) for a single character c
RECURSIVE RStrip(_, _)
RStrip(s, c) ==
    IF s # <<>> /\ s[Len(s)] = c THEN RStrip(SubSeq(s, 1, Len(s) - 1), c) ELSE s

\* index of the first character of s that is in cs, or Len(s) + 1
FirstOf(s, cs) ==
    IF \E i \in 1..Len(s) : s[i] \in cs
    THEN CHOOSE i \in 1..Len(s) : s[i] \in cs /\ \A j \in 1..(i - 1) : s[j] \notin cs
    ELSE Len(s) + 1

\* s.split(c, 1)[0]
SplitFirst(s, c) == SubSeq(s, 1, FirstOf(s, {c}) - 1)

\* the rest of s after the first c (empty when c does not occur)
AfterFirst(s, c) == SubSeq(s, FirstOf(s, {c}) + 1, Len(s))

\* [seg for seg in s.split(c) if seg]
RECURSIVE SplitNonEmpty(_, _)
SplitNonEmpty(s, c) ==
    IF s = <<>> THEN <<>>
    ELSE LET head == SplitFirst(s, c)
             rest == SplitNonEmpty(AfterFirst(s, c), c)
         IN  IF head = <<>> THEN rest ELSE <<head>> \o rest

\* c.join(parts)
RECURSIVE Join(_, _)
Join(parts, c) ==
    IF parts = <<>> THEN <<>>
    ELSE IF Len(parts) = 1 THEN parts[1]
    ELSE parts[1] \o <<c>> \o Join(Tail(parts), c)

\* s.replace(a, b) for single characters
Replace(s, a, b) == [i \in 1..Len(s) |-> IF s[i] = a THEN b ELSE s[i]]

\* s.isdigit() for ASCII text
Digits == {"0", "1", "2", "3", "4", "5", "6", "7", "8", "9"}
IsDigit(s) == s # <<>> /\ \A i \in 1..Len(s) : s[i] \in Digits

DigitVal(c) ==
    CASE c = "0" -> 0 [] c = "1" -> 1 [] c = "2" -> 2 [] c = "3" -> 3
      [] c = "4" -> 4 [] c = "5" -> 5 [] c = "6" -> 6 [] c = "7" -> 7
      [] c = "8" -> 8 [] c = "9" -> 9

\* int(s) for a string of digits
RECURSIVE IntOf(_)
IntOf(s) ==
    IF s = <<>> THEN 0
    ELSE 10 * IntOf(SubSeq(s, 1, Len(s) - 1)) + DigitVal(s[Len(s)])

-----------------------------------------------------------------------------
(* urllib.parse, for URLs without parameters (";"), dot segments or empty  *)
(* path segments: the URLs drawn below have none.                          *)

SchemeChars ==
    {"a", "b", "c", "d", "e", "f", "g", "h", "i", "j", "k", "l", "m", "n", "o",
     "p", "q", "r", "s", "t", "u", "v", "w", "x", "y", "z", "+", "-", "."}

\* the scheme of u is what precedes its first ":", if that is a scheme name
HasScheme(u) ==
    LET colon == FirstOf(u, {":"})
    IN  colon <= Len(u) /\ colon > 1 /\ \A i \in 1..(colon - 1) : u[i] \in SchemeChars

\* the netloc of "//netloc..." ends at the first "/", "?" or "#"
NetlocOf(rest) ==
    IF StartsWith(rest, <<"/", "/">>)
    THEN SubSeq(rest, 3, FirstOf(SubSeq(rest, 3, Len(rest)), {"/", "?", "#"}) + 1)
    ELSE <<>>

AfterNetloc(rest) ==
    IF StartsWith(rest, <<"/", "/">>)
    THEN SubSeq(rest, FirstOf(SubSeq(rest, 3, Len(rest)), {"/", "?", "#"}) + 2, Len(rest))
    ELSE rest

\* urlparse(u): scheme, netloc, path, query, fragment
urlparse(u) ==
    LET Parts(scheme, netloc, rest) ==
            [scheme   |-> scheme,
             netloc   |-> netloc,
             path     |-> SplitFirst(SplitFirst(rest, "#"), "?"),
             query    |-> AfterFirst(SplitFirst(rest, "#"), "?"),
             fragment |-> AfterFirst(rest, "#")]
        Split(scheme, rest) == Parts(scheme, NetlocOf(rest), AfterNetloc(rest))
    IN  IF HasScheme(u)
        THEN Split(SplitFirst(u, ":"), AfterFirst(u, ":"))
        ELSE Split(<<>>, u)

\* urlunparse
urlunparse(p) ==
    (IF p.scheme # <<>> THEN p.scheme \o <<":">> ELSE <<>>)
    \o (IF p.netloc # <<>> THEN <<"/", "/">> \o p.netloc ELSE <<>>)
    \o p.path
    \o (IF p.query # <<>> THEN <<"?">> \o p.query ELSE <<>>)
    \o (IF p.fragment # <<>> THEN <<"#">> \o p.fragment ELSE <<>>)

\* the directory part of a base path: everything up to its last "/"
RECURSIVE DirName(_)
DirName(path) ==
    IF path = <<>> \/ path[Len(path)] = "/" THEN path
    ELSE DirName(SubSeq(path, 1, Len(path) - 1))

\* the reference, resolved against the parsed base
Resolve(b, r) ==
    IF r.netloc # <<>>
    THEN [r EXCEPT !.scheme = b.scheme]
    ELSE IF r.path = <<>>
    THEN [b EXCEPT !.query = IF r.query # <<>> THEN r.query ELSE b.query,
                   !.fragment = r.fragment]
    ELSE IF r.path[1] = "/"
    THEN [r EXCEPT !.scheme = b.scheme, !.netloc = b.netloc]
    ELSE [r EXCEPT !.scheme = b.scheme,
                   !.netloc = b.netloc,
                   !.path = (IF DirName(b.path) = <<>> THEN <<"/">> ELSE DirName(b.path))
                            \o r.path]

\* urljoin(base, ref)
urljoin(base, ref) ==
    LET Joined(b, r) ==
            IF r.scheme # <<>> /\ r.scheme # b.scheme THEN ref
            ELSE urlunparse(Resolve(b, r))
    IN  IF ref = <<>> THEN base ELSE Joined(urlparse(base), urlparse(ref))

-----------------------------------------------------------------------------
(* sanitize_filename, lines 34-47. *)

DotHtml == <<".", "h", "t", "m", "l">>

\* mutant: line 44, the replacement of ":", is left out
sanitize_filename_keeps_colon(u, timestamp) ==
    LET Suffixed(base) == IF EndsWith(base, DotHtml) THEN base ELSE base \o DotHtml
        Named(netloc, segments) ==
            Suffixed((IF segments # <<>>
                      THEN netloc \o <<"_">> \o Join(segments, "_")
                      ELSE netloc)
                     \o (IF timestamp # <<>> THEN <<"_">> \o timestamp ELSE <<>>))
        Parsed(parsed) ==
            Named(parsed.netloc, SplitNonEmpty(RStrip(parsed.path, "/"), "/"))
    IN  Parsed(urlparse(u))

sanitize_filename(u, timestamp) ==
    LET Suffixed(base) == IF EndsWith(base, DotHtml) THEN base ELSE base \o DotHtml
        Named(netloc, segments) ==
            Suffixed(Replace(
                (IF segments # <<>>
                 THEN netloc \o <<"_">> \o Join(segments, "_")
                 ELSE netloc)
                \o (IF timestamp # <<>> THEN <<"_">> \o timestamp ELSE <<>>),
                ":", "_"))
        Parsed(parsed) ==
            Named(parsed.netloc, SplitNonEmpty(RStrip(parsed.path, "/"), "/"))
    IN  Parsed(urlparse(u))

-----------------------------------------------------------------------------
(* to_iso_timestamp, lines 50-54.  datetime.strptime(ts, "%Y%m%d%H%M%S")   *)
(* on 14 digits succeeds exactly when the digits are a calendar date and   *)
(* a time of day (year 0001-9999, second at most 59) and raises ValueError *)
(* otherwise.  datetime.utcnow() is the clock's value, the token UtcNow.   *)

IsLeap(y) == (y % 4 = 0 /\ y % 100 # 0) \/ y % 400 = 0

DaysIn(y, m) ==
    IF m = 2 THEN (IF IsLeap(y) THEN 29 ELSE 28)
    ELSE IF m \in {4, 6, 9, 11} THEN 30 ELSE 31

StrptimeOk(ts) ==
    LET Valid(y, m, d, hh, mm, ss) ==
            /\ y >= 1
            /\ m \in 1..12
            /\ d >= 1 /\ d <= DaysIn(y, m)
            /\ hh <= 23 /\ mm <= 59 /\ ss <= 59
    IN  Valid(IntOf(SubSeq(ts, 1, 4)), IntOf(SubSeq(ts, 5, 6)), IntOf(SubSeq(ts, 7, 8)),
              IntOf(SubSeq(ts, 9, 10)), IntOf(SubSeq(ts, 11, 12)),
              IntOf(SubSeq(ts, 13, 14)))

\* dt.isoformat()
IsoFormat(ts) ==
    SubSeq(ts, 1, 4) \o <<"-">> \o SubSeq(ts, 5, 6) \o <<"-">> \o SubSeq(ts, 7, 8)
    \o <<"T">> \o SubSeq(ts, 9, 10) \o <<":">> \o SubSeq(ts, 11, 12)
    \o <<":">> \o SubSeq(ts, 13, 14)

UtcNow == <<"utcnow">>

\* raised: ValueError left strptime; value: the string returned otherwise
to_iso_timestamp(timestamp) ==
    IF timestamp # <<>> /\ Len(timestamp) = 14 /\ IsDigit(timestamp)
    THEN IF StrptimeOk(timestamp)
         THEN [raised |-> FALSE, value |-> IsoFormat(timestamp)]
         ELSE [raised |-> TRUE, value |-> <<>>]
    ELSE [raised |-> FALSE, value |-> UtcNow]

-----------------------------------------------------------------------------
(* log_archive, lines 57-65.  The file is opened for append (created when  *)
(* absent) and the header is written before the row's list is built, so an *)
(* exception of to_iso_timestamp leaves a created file with its header.    *)

Header ==
    <<Chars("captured_at"), Chars("original_url"), Chars("wayback_url"),
      Chars("local_filename")>>

\* mutant: the header is written on every call, not only into a new file
log_archive_always_header(log, original_url, wayback_url, local_filename, timestamp) ==
    LET Written(opened, iso) ==
            IF iso.raised
            THEN [lines |-> opened, raised |-> TRUE]
            ELSE [lines |-> Append(opened,
                      <<iso.value, original_url, wayback_url, local_filename>>),
                  raised |-> FALSE]
    IN  Written(Append(log, Header), to_iso_timestamp(timestamp))

\* mutant: the file is opened with "w": it is rewritten on every call
log_archive_rewrites(log, original_url, wayback_url, local_filename, timestamp) ==
    LET Written(opened, iso) ==
            IF iso.raised
            THEN [lines |-> opened, raised |-> TRUE]
            ELSE [lines |-> Append(opened,
                      <<iso.value, original_url, wayback_url, local_filename>>),
                  raised |-> FALSE]
    IN  Written(<<Header>>, to_iso_timestamp(timestamp))

\* lines: the file afterwards; raised: the call ended in an exception
log_archive(log, original_url, wayback_url, local_filename, timestamp) ==
    LET Written(opened, iso) ==
            IF iso.raised
            THEN [lines |-> opened, raised |-> TRUE]
            ELSE [lines |-> Append(opened,
                      <<iso.value, original_url, wayback_url, local_filename>>),
                  raised |-> FALSE]
    IN  Written(IF log # <<>> THEN log ELSE <<Header>>, to_iso_timestamp(timestamp))

-----------------------------------------------------------------------------
(* extract_related_links, lines 109-142.  A page is the sequence of its    *)
(* anchors with an href, in document order; each is its href and whether   *)
(* it lies inside an <article> element.                                    *)

\* soup.select("article a[href]")
RECURSIVE ArticleAnchors(_)
ArticleAnchors(html) ==
    IF html = <<>> THEN <<>>
    ELSE IF html[1].in_article
    THEN <<html[1]>> \o ArticleAnchors(Tail(html))
    ELSE ArticleAnchors(Tail(html))

\* soup.find_all("a", href=True)
AllAnchors(html) == html

\* href.split("#", 1)[0].rstrip("/")
Cleaned(href) == RStrip(SplitFirst(href, "#"), "/")

InSeq(x, s) == \E i \in 1..Len(s) : s[i] = x

News == <<"/", "n", "e", "w", "s">>
BriefingRoom == <<"/", "b", "r", "i", "e", "f", "i", "n", "g", "-", "r", "o", "o", "m">>

\* line 121: the condition under which the first loop collects an anchor
Tier1Keeps(base_url, anchor, links) ==
    LET Keeps(href) ==
            /\ urlparse(href).netloc = urlparse(base_url).netloc
            /\ Cleaned(href) # RStrip(base_url, "/")
            /\ ~InSeq(Cleaned(href), links)
    IN  Keeps(urljoin(base_url, anchor.href))

\* lines 133-136: outside the listing, only likely article paths are allowed
PathAllowed(cleaned, base_clean, path) ==
    ~(/\ ~StartsWith(cleaned, base_clean)
      /\ ~Contains(path, News)
      /\ ~Contains(path, BriefingRoom))

\* lines 131-137: the condition under which the fallback loop collects one
Tier2Keeps(base_url, anchor, links) ==
    LET Keeps(href, cleaned, base_clean) ==
            /\ ~(urlparse(href).netloc # urlparse(base_url).netloc
                 \/ cleaned = base_clean)
            /\ PathAllowed(cleaned, base_clean, urlparse(href).path)
            /\ ~InSeq(cleaned, links)
        Joined(href) == Keeps(href, Cleaned(href), RStrip(base_url, "/"))
    IN  Joined(urljoin(base_url, anchor.href))

\* mutant: the test is "limit <= len(links)", without "0 <"
LimitReachedAtZero(limit, links) == limit <= Len(links)

\* lines 123-124 and 139-140: "return links" once the limit is reached
LimitReached(limit, links) == 0 < limit /\ limit <= Len(links)

\* lines 117-124: the loop from anchor i on; returned = left by "return links"
RECURSIVE Tier1Scan(_, _, _, _, _)
Tier1Scan(base_url, anchors, limit, i, links) ==
    LET Collected(appended) ==
            IF LimitReached(limit, appended)
            THEN [links |-> appended, returned |-> TRUE]
            ELSE Tier1Scan(base_url, anchors, limit, i + 1, appended)
    IN  IF i > Len(anchors) THEN [links |-> links, returned |-> FALSE]
        ELSE IF Tier1Keeps(base_url, anchors[i], links)
        THEN Collected(Append(links, Cleaned(urljoin(base_url, anchors[i].href))))
        ELSE Tier1Scan(base_url, anchors, limit, i + 1, links)

\* lines 127-140
RECURSIVE Tier2Scan(_, _, _, _, _)
Tier2Scan(base_url, anchors, limit, i, links) ==
    LET Collected(appended) ==
            IF LimitReached(limit, appended)
            THEN [links |-> appended, returned |-> TRUE]
            ELSE Tier2Scan(base_url, anchors, limit, i + 1, appended)
    IN  IF i > Len(anchors) THEN [links |-> links, returned |-> FALSE]
        ELSE IF Tier2Keeps(base_url, anchors[i], links)
        THEN Collected(Append(links, Cleaned(urljoin(base_url, anchors[i].href))))
        ELSE Tier2Scan(base_url, anchors, limit, i + 1, links)

\* line 142: links if limit <= 0 else links[:limit]
Truncated(links, limit) ==
    IF limit <= 0 THEN links
    ELSE SubSeq(links, 1, IF limit < Len(links) THEN limit ELSE Len(links))

\* mutant: the fallback loop runs whatever the first loop collected
FallbackAlways(links) == TRUE

\* line 126: the fallback loop runs when the first loop collected nothing
FallbackNeeded(links) == links = <<>>

\* links: the list returned; tier2: whether the fallback loop ran
extract_related_links(base_url, html, limit) ==
    LET After2(t2) ==
            [links |-> IF t2.returned THEN t2.links ELSE Truncated(t2.links, limit),
             tier2 |-> TRUE]
        After1(t1) ==
            IF t1.returned THEN [links |-> t1.links, tier2 |-> FALSE]
            ELSE IF FallbackNeeded(t1.links)
            THEN After2(Tier2Scan(base_url, AllAnchors(html), limit, 1, t1.links))
            ELSE [links |-> Truncated(t1.links, limit), tier2 |-> FALSE]
    IN  After1(Tier1Scan(base_url, ArticleAnchors(html), limit, 1, <<>>))

-----
(* The environment: what the caller, the web server and the capture        *)
(* service may supply.                                                     *)

Anchor(href, in_article) == [href |-> Chars(href), in_article |-> in_article]

\* seeds given on the command line
SeedPlain == Chars("https://h/news")
SeedFragment == Chars("https://h/news#top")
RunSeeds == {SeedPlain, SeedFragment}

\* pages the seed fetch may return
PageArticles == <<Anchor("/news/a", TRUE), Anchor("/news/a?p=2", TRUE)>>
PageTeasers == <<Anchor("/about", FALSE), Anchor("/briefing-room/c", FALSE)>>
PageNoLinks == <<>>
PageSelf == <<Anchor("#main", TRUE)>>       \* a link into the page itself
RunPages == {PageArticles, PageTeasers, PageNoLinks, PageSelf}

RunLimits == {0, 1}

\* capture timestamps: a capture time, and 14 digits that are no date
TsGood == Chars("20240101120000")
TsBadDate == Chars("20240230120000")
RunTimestamps == {TsGood, TsBadDate}

\* the address the capture service reports for a capture
ArchiveUrl(u, timestamp) == Chars("https://wb/") \o timestamp \o <<"/">> \o u

\* os.path.join(output_dir, filename) for the --output-dir of the runs
OutputDir == Chars("out")
Destination(filename) == OutputDir \o <<"/">> \o filename

-----------------------------------------------------------------------------
(* archive_with_wayback, lines 68-106, step by step.                       *)

Idle ==
    [step |-> "idle", caller |-> "none", url |-> <<>>, archived_url |-> <<>>,
     timestamp |-> <<>>, filename |-> <<>>, manifest0 |-> <<>>, files0 |-> {},
     wrote |-> FALSE]

IsRow(line) == line # Header

\* the record kept of a finished call
Summary(f, outcome, fail, already_local) ==
    [url |-> f.url, caller |-> f.caller,
     outcome |-> outcome,            \* "none", "path" or "raised"
     fail |-> fail,                  \* the point at which the call gave up
     filename |-> f.filename,
     already_local |-> already_local,
     wrote |-> f.wrote,
     unchanged |-> manifest' = f.manifest0 /\ files' = f.files0,
     rows0 |-> Len(SelectSeq(f.manifest0, IsRow)),
     rows1 |-> Len(SelectSeq(manifest', IsRow))]

\* the counter c with the count of the key k raised by one
Count(c, k) == IF k \in DOMAIN c THEN c[k] ELSE 0
Counted(c, k) == [x \in DOMAIN c \cup {k} |-> IF x = k THEN Count(c, k) + 1 ELSE c[x]]

\* line 152: an exception of the seed's archival leaves archive_site
AfterSeed(raised, exception) ==
    IF raised THEN [pc |-> "raised", error |-> exception, idx |-> idx]
    ELSE [pc |-> "extract", error |-> "none", idx |-> idx]

\* mutant: no try/except around the call in the loop
AfterLinkPropagates(raised, exception) ==
    IF raised THEN [pc |-> "raised", error |-> exception, idx |-> idx]
    ELSE [pc |-> "loop", error |-> "none", idx |-> idx + 1]

\* lines 158-162: an exception of a link's archival is caught and printed
AfterLink(raised, exception) ==
    [pc |-> "loop", error |-> "none", idx |-> idx + 1]

\* the call returns (or raises) to archive_site
Finish(f, outcome, fail, already_local, exception) ==
    LET next == IF f.caller = "seed"
                THEN AfterSeed(outcome = "raised", exception)
                ELSE AfterLink(outcome = "raised", exception)
    IN  /\ attempts' = Append(attempts, Summary(f, outcome, fail, already_local))
        /\ returned' = IF outcome = "path" THEN Counted(returned, f.filename)
                       ELSE returned
        /\ frame' = Idle
        /\ pc' = next.pc
        /\ error' = next.error
        /\ idx' = next.idx

\* lines 69-78: the dependency check and the capture request.  The request
\* is made with no timeout (lines 74-75, unlike the requests.get calls of
\* lines 29 and 95): it ends in a WaybackError, returns, or does not return.
Enter(u, caller) ==
    LET f == [Idle EXCEPT !.step = "requested", !.caller = caller, !.url = u,
                          !.manifest0 = manifest, !.files0 = files]
    IN  /\ UNCHANGED <<files, manifest, writes>>
        /\ IF ~installed
           THEN Finish(f, "raised", "runtime", FALSE, "RuntimeError")
           ELSE \/ Finish(f, "none", "capture", FALSE, "none")  \* WaybackError
                \/ /\ frame' = [f EXCEPT !.step = "blocked"]  \* save() given no
                   /\ UNCHANGED <<pc, error, idx, attempts, returned>>  \* timeout
                \/ /\ \/ frame' = [f EXCEPT !.step = "saved"]  \* no archive_url
                      \/ \E ts \in RunTimestamps :
                            frame' = [f EXCEPT !.step = "saved",
                                               !.archived_url = ArchiveUrl(u, ts),
                                               !.timestamp = ts]
                   /\ UNCHANGED <<pc, error, idx, attempts, returned>>

\* line 152
ArchiveSeed ==
    /\ pc = "archive_seed"
    /\ frame.step = "idle"
    /\ Enter(url, "seed")
    /\ UNCHANGED <<url, max_links, installed, fetch, main_html, related_links,
                   extracted, tier2_ran, run, runStart>>

\* lines 158-160
ArchiveLink ==
    /\ pc = "loop"
    /\ frame.step = "idle"
    /\ idx <= Len(related_links)
    /\ Enter(related_links[idx], "link")
    /\ UNCHANGED <<url, max_links, installed, fetch, main_html, related_links,
                   extracted, tier2_ran, run, runStart>>

\* mutant: no idempotency check
AlreadyStoredNever(filename) == FALSE

\* line 89: os.path.exists(destination)
AlreadyStored(filename) == filename \in files

\* lines 80-92: resolve the address, derive the name, idempotency check
ResolveCapture ==
    /\ frame.step = "saved"
    /\ LET AlreadyLocal(f, logged) ==
               /\ manifest' = logged.lines
               /\ UNCHANGED <<files, writes>>
               /\ IF logged.raised
                  THEN Finish(f, "raised", "log", TRUE, "ValueError")
                  ELSE Finish(f, "path", "none", TRUE, "none")
           Resolved(filename) ==
               IF AlreadyStored(filename)
               THEN AlreadyLocal([frame EXCEPT !.filename = filename],
                                 log_archive(manifest, frame.url, frame.archived_url,
                                             filename, frame.timestamp))
               ELSE /\ frame' = [frame EXCEPT !.step = "download",
                                              !.filename = filename]
                    /\ UNCHANGED <<files, manifest, writes, pc, error, idx,
                                   attempts, returned>>
       IN  IF frame.archived_url = <<>>
           THEN /\ UNCHANGED <<files, manifest, writes>>
                /\ Finish(frame, "none", "noaddress", FALSE, "none")
           ELSE Resolved(sanitize_filename(frame.url, frame.timestamp))
    /\ UNCHANGED <<url, max_links, installed, fetch, main_html, related_links,
                   extracted, tier2_ran, run, runStart>>

\* mutant: the destination is opened for writing before the download
DownloadIntoOpenFile ==
    /\ frame.step = "download"
    /\ UNCHANGED <<manifest, writes>>
    /\ \/ /\ files' = files \cup {frame.filename}
          /\ Finish(frame, "none", "download", FALSE, "none")
       \/ /\ frame' = [frame EXCEPT !.step = "write"]
          /\ UNCHANGED <<files, pc, error, idx, attempts, returned>>
    /\ UNCHANGED <<url, max_links, installed, fetch, main_html, related_links,
                   extracted, tier2_ran, run, runStart>>

\* lines 94-99: the download of the captured content
Download ==
    /\ frame.step = "download"
    /\ UNCHANGED <<files, manifest, writes>>
    /\ \/ Finish(frame, "none", "download", FALSE, "none")  \* RequestException
       \/ /\ frame' = [frame EXCEPT !.step = "write"]
          /\ UNCHANGED <<pc, error, idx, attempts, returned>>
    /\ UNCHANGED <<url, max_links, installed, fetch, main_html, related_links,
                   extracted, tier2_ran, run, runStart>>

\* mutant: the content is not written before the call goes on to log
WriteFileSkipped ==
    /\ frame.step = "write"
    /\ frame' = [frame EXCEPT !.step = "log", !.wrote = TRUE]
    /\ UNCHANGED <<files, writes, manifest, pc, error, idx, attempts, returned>>
    /\ UNCHANGED <<url, max_links, installed, fetch, main_html, related_links,
                   extracted, tier2_ran, run, runStart>>

\* lines 101-102
WriteFile ==
    /\ frame.step = "write"
    /\ files' = files \cup {frame.filename}
    /\ writes' = Counted(writes, frame.filename)
    /\ frame' = [frame EXCEPT !.step = "log", !.wrote = TRUE]
    /\ UNCHANGED <<manifest, pc, error, idx, attempts, returned>>
    /\ UNCHANGED <<url, max_links, installed, fetch, main_html, related_links,
                   extracted, tier2_ran, run, runStart>>

\* lines 104-106
LogAndReturn ==
    /\ frame.step = "log"
    /\ LET Logged(logged) ==
               /\ manifest' = logged.lines
               /\ UNCHANGED <<files, writes>>
               /\ IF logged.raised
                  THEN Finish(frame, "raised", "log", FALSE, "ValueError")
                  ELSE Finish(frame, "path", "none", FALSE, "none")
       IN  Logged(log_archive(manifest, frame.url, frame.archived_url,
                              frame.filename, frame.timestamp))
    /\ UNCHANGED <<url, max_links, installed, fetch, main_html, related_links,
                   extracted, tier2_ran, run, runStart>>

-----------------------------------------------------------------------------
(* archive_site, lines 145-162, and the command line, lines 165-172.       *)

\* mutant: the failure of the seed fetch is swallowed
AfterFetchSwallows(failed) == [pc |-> "archive_seed", error |-> "none"]

\* lines 147-150: a RequestException of fetch_html is raised again as a
\* RuntimeError, which leaves archive_site
AfterFetch(failed) ==
    IF failed THEN [pc |-> "raised", error |-> "RuntimeError"]
    ELSE [pc |-> "archive_seed", error |-> "none"]

\* lines 27-31 and 147-150: the seed fetch
FetchSeed ==
    /\ pc = "fetch"
    /\ \/ /\ \E page \in RunPages : main_html' = page
          /\ fetch' = "ok"
       \/ /\ fetch' = "failed"                    \* requests.RequestException
          /\ UNCHANGED main_html
    /\ pc' = AfterFetch(fetch' = "failed").pc
    /\ error' = AfterFetch(fetch' = "failed").error
    /\ UNCHANGED <<url, max_links, installed, related_links, extracted, tier2_ran,
                   idx, frame, files, manifest, attempts, writes, returned, run,
                   runStart>>

\* lines 154-156
ExtractLinks ==
    /\ pc = "extract"
    /\ LET Found(found) ==
               /\ related_links' = found.links
               /\ tier2_ran' = found.tier2
       IN  Found(extract_related_links(url, main_html, max_links))
    /\ extracted' = TRUE
    /\ idx' = 1
    /\ pc' = "loop"
    /\ UNCHANGED <<url, max_links, installed, fetch, main_html, error, frame, files,
                   manifest, attempts, writes, returned, run, runStart>>

\* line 158: the for loop is exhausted and archive_site returns
LoopEnd ==
    /\ pc = "loop"
    /\ frame.step = "idle"
    /\ idx > Len(related_links)
    /\ pc' = "done"
    /\ UNCHANGED <<url, max_links, installed, fetch, main_html, related_links,
                   extracted, tier2_ran, idx, error, frame, files, manifest,
          attempts, writes, returned, run, runStart>>

\* the state in which a process starts archive_site
StartOfRun(n, seed, limit, imported) ==
    /\ pc' = "fetch"
    /\ url' = seed
    /\ max_links' = limit
    /\ installed' = imported
    /\ fetch' = "pending"
    /\ main_html' = <<>>
    /\ related_links' = <<>>
    /\ extracted' = FALSE
    /\ tier2_ran' = FALSE
    /\ idx' = 0
    /\ error' = "none"
    /\ frame' = Idle
    /\ attempts' = <<>>
    /\ run' = n
    /\ runStart' = [files |-> files, manifest |-> manifest]

\* lines 165-172: the same command line is run again on the same output
\* directory (a scheduled job); the dependency may have been installed since
NewRun ==
    /\ pc \in {"done", "raised"}
    /\ run < MaxRuns
    /\ \E imported \in BOOLEAN : StartOfRun(run + 1, url, max_links, imported)
    /\ UNCHANGED <<files, manifest, writes, returned>>

Init ==
    /\ pc = "fetch"
    /\ url \in RunSeeds
    /\ max_links \in RunLimits
    /\ installed \in BOOLEAN
    /\ fetch = "pending"
    /\ main_html = <<>>
    /\ related_links = <<>>
    /\ extracted = FALSE
    /\ tier2_ran = FALSE
    /\ idx = 0
    /\ error = "none"
    /\ frame = Idle
    /\ files = {}
    /\ manifest = <<>>
    /\ attempts = <<>>
    /\ writes = <<>>
    /\ returned = <<>>
    /\ run = 1
    /\ runStart = [files |-> {}, manifest |-> <<>>]

Next ==
    \/ FetchSeed
    \/ ArchiveSeed
    \/ ExtractLinks
    \/ ArchiveLink
    \/ LoopEnd
    \/ ResolveCapture
    \/ Download
    \/ WriteFile
    \/ LogAndReturn
    \/ NewRun

Spec == Init /\ [][Next]_vars

-----------------------------------------------------------------------------
(* The link extractor on its own: extract_related_links applied to every   *)
(* base URL, page of at most MaxAnchors anchors and limit drawn below.     *)

SeedSlash == Chars("https://h/news/")
SeedBlog == Chars("https://h/blog")
SeedQuery == Chars("https://h/blog?p=2")
BaseUrls == {SeedPlain, SeedFragment, SeedSlash, SeedBlog, SeedQuery}

Hrefs ==
    {Chars("/news/a"), Chars("https://h/news/a/"), Chars("#main"),
     Chars("https://x/news/b"), Chars("/about"), Chars("/briefing-room/c"),
     Chars("/blog/post"), Chars("http://h/blog/post")}

Anchors == [href : Hrefs, in_article : BOOLEAN]

Pages == UNION {[1..n -> Anchors] : n \in 0..MaxAnchors}

Limits == (-1)..MaxLimit

ExtractInit ==
    /\ pc = "extract"
    /\ url \in BaseUrls
    /\ max_links \in Limits
    /\ installed = TRUE
    /\ fetch = "ok"
    /\ main_html \in Pages
    /\ related_links = <<>>
    /\ extracted = FALSE
    /\ tier2_ran = FALSE
    /\ idx = 0
    /\ error = "none"
    /\ frame = Idle
    /\ files = {}
    /\ manifest = <<>>
    /\ attempts = <<>>
    /\ writes = <<>>
    /\ returned = <<>>
    /\ run = 1
    /\ runStart = [files |-> {}, manifest |-> <<>>]

ExtractNext == ExtractLinks

ExtractSpec == ExtractInit /\ [][ExtractNext]_vars

-----------------------------------------------------------------------------
(* Properties of the Snapshot Client and the Orchestrator (Spec).          *)

RECURSIVE TotalOver(_, _)
TotalOver(c, keys) ==
    IF keys = {} THEN 0
    ELSE LET k == CHOOSE x \in keys : TRUE
         IN  c[k] + TotalOver(c, keys \ {k})

\* calls, of all runs, that returned a local path
Successes == TotalOver(returned, DOMAIN returned)

RowsAdded(a) == a.rows1 - a.rows0

\* manifest rows whose local_filename is the given name
RowsFor(filename) ==
    Cardinality({i \in 1..Len(manifest) : manifest[i][4] = filename})

IsLinkAttempt(a) == a.caller = "link"
LinkAttempts == SelectSeq(attempts, IsLinkAttempt)

\* C1: an attempt that fails at the capture request, at the resolution of
\* the archived address or at the download returns null and leaves the
\* manifest and the set of local files as they were when it was called.
C1_FailedAttemptLeavesNoTrace ==
    \A i \in 1..Len(attempts) :
        attempts[i].fail \in {"capture", "noaddress", "download"}
        => attempts[i].outcome = "none" /\ attempts[i].unchanged

\* the three failure points in one run, on a directory that holds a manifest
C1_Witness ==
    /\ manifest # <<>>
    /\ \E i, j, k \in 1..Len(attempts) :
        /\ attempts[i].fail = "capture"
        /\ attempts[j].fail = "noaddress"
        /\ attempts[k].fail = "download"

\* C2 as claimed: of any two calls of a run that resolve to the same local
\* path, the first downloads and writes the content, the second does not,
\* the file has been written once, each call appends one row and returns
\* the path.
C2_SamePathTwice_Original ==
    \A i, j \in 1..Len(attempts) :
        (i < j /\ attempts[i].filename # <<>>
               /\ attempts[i].filename = attempts[j].filename)
        => /\ Count(writes, attempts[i].filename) = 1
           /\ ~attempts[j].wrote
           /\ attempts[i].outcome = "path" /\ attempts[j].outcome = "path"
           /\ RowsAdded(attempts[i]) = 1 /\ RowsAdded(attempts[j]) = 1

\* C2 amended: of any two calls that both return the same local path, the
\* content of that path has been downloaded and written exactly once, not
\* by the second call, and each call appended exactly one row; over all
\* runs a path's rows are as many as the calls that returned it.
C2_SamePathTwice ==
    /\ \A filename \in DOMAIN returned :
        /\ Count(writes, filename) = 1
        /\ RowsFor(filename) = returned[filename]
    /\ \A i, j \in 1..Len(attempts) :
        (/\ i < j
         /\ attempts[i].outcome = "path" /\ attempts[j].outcome = "path"
         /\ attempts[i].filename = attempts[j].filename)
        => /\ ~attempts[j].wrote /\ attempts[j].already_local
           /\ RowsAdded(attempts[i]) = 1 /\ RowsAdded(attempts[j]) = 1

\* one path returned by two calls of one run and by a call of an earlier run
C2_Witness ==
    /\ run = 2
    /\ \E i, j \in 1..Len(attempts) :
        /\ i < j
        /\ attempts[i].outcome = "path" /\ attempts[j].outcome = "path"
        /\ attempts[i].filename = attempts[j].filename
        /\ returned[attempts[i].filename] = 3

\* C3 as claimed: between attempts, once an attempt has been made on a
\* fresh directory, the manifest has N + 1 lines, N the attempts that
\* ended in a success or an idempotent no-op.
C3_ManifestLines_Original ==
    (frame.step = "idle" /\ (attempts # <<>> \/ run > 1))
    => Len(manifest) = Successes + 1

\* C3 amended: the manifest does not exist until an attempt reaches the
\* logging step; from then on its first line is the header, no other line
\* is, and the header is followed by exactly N rows, N the attempts that
\* returned a path.
C3_ManifestLines ==
    IF manifest = <<>> THEN Successes = 0
    ELSE /\ manifest[1] = Header
         /\ \A i \in 2..Len(manifest) : manifest[i] # Header
         /\ Len(manifest) = Successes + 1

\* successes, a failure and an idempotent no-op over two runs
C3_Witness ==
    /\ run = 2
    /\ pc = "done"
    /\ Len(manifest) = 4
    /\ \E i \in 1..Len(attempts) : attempts[i].outcome = "none"
    /\ \E i \in 1..Len(attempts) : attempts[i].already_local

\* C4: once the links are extracted nothing ends the run early: the links
\* are passed to archive_with_wayback one by one in their order, whatever
\* the earlier calls returned or raised, and the run ends only after all.
C4_LoopIsolation ==
    extracted
    => /\ pc \in {"loop", "done"}
       /\ Len(LinkAttempts) <= Len(related_links)
       /\ \A i \in 1..Len(LinkAttempts) : LinkAttempts[i].url = related_links[i]
       /\ pc = "done" => Len(LinkAttempts) = Len(related_links)

\* a run that finished after its first link raised and its second was tried
C4_Witness ==
    /\ pc = "done"
    /\ Len(LinkAttempts) = 2
    /\ LinkAttempts[1].outcome = "raised"
    /\ LinkAttempts[2].outcome = "path"

\* C5 as claimed: only the failure of the seed fetch ends a run with an
\* error; no failure of the seed's archival does.
C5_SeedArchivalNonFatal_Original == pc = "raised" => fetch = "failed"

\* C6: when the seed fetch fails the run ends with an error and has sent
\* no capture request, extracted no links, written no local file and
\* appended nothing to the manifest.
C6_SeedFetchFatal ==
    fetch = "failed"
    => /\ pc = "raised" /\ error = "RuntimeError"
       /\ attempts = <<>> /\ frame = Idle
       /\ ~extracted
       /\ files = runStart.files
       /\ manifest = runStart.manifest

\* the fetch fails in a second run, on a directory that holds an archive
C6_Witness == fetch = "failed" /\ run = 2 /\ files # {} /\ Len(manifest) > 1

\* C7 as claimed: every call appends at most one row, and exactly one if
\* and only if it found the file already stored or downloaded and wrote it.
C7_OneRowPerSuccess_Original ==
    \A i \in 1..Len(attempts) :
        /\ RowsAdded(attempts[i]) \in {0, 1}
        /\ RowsAdded(attempts[i]) = 1
           <=> (attempts[i].already_local \/ attempts[i].wrote)

-----------------------------------------------------------------------------
(* Properties of the Link Extractor (ExtractSpec).                         *)

Links == Range(related_links)
Href(a) == urljoin(url, a.href)
SameHost(a) == urlparse(Href(a)).netloc = urlparse(url).netloc
NotSelf(a) == Cleaned(Href(a)) # RStrip(url, "/")
HasMarker(a) ==
    Contains(urlparse(Href(a)).path, News) \/ Contains(urlparse(Href(a)).path, BriefingRoom)

\* an anchor's link as both tiers see it
Candidate(a) ==
    LET Seen(href, parsed) ==
            [cleaned |-> Cleaned(href), netloc |-> parsed.netloc,
             path |-> parsed.path, in_article |-> a.in_article]
        Of(href) == Seen(href, urlparse(href))
    IN  Of(urljoin(url, a.href))

\* the same-host, non-self links of the page
Candidates ==
    LET Kept(base_domain, base_clean) ==
            {c \in {Candidate(main_html[i]) : i \in 1..Len(main_html)} :
                c.netloc = base_domain /\ c.cleaned # base_clean}
    IN  Kept(urlparse(url).netloc, RStrip(url, "/"))

\* what the first tier admits: the candidates inside <article>
Tier1Of(candidates) == {c.cleaned : c \in {d \in candidates : d.in_article}}

\* what the fallback tier admits: the candidates under the base URL or with
\* an article-path marker in their path
Tier2Of(candidates, base_clean) ==
    {c.cleaned : c \in {d \in candidates :
        \/ StartsWith(d.cleaned, base_clean)
        \/ Contains(d.path, News)
        \/ Contains(d.path, BriefingRoom)}}

\* C8 as claimed: the result never holds the normalized seed URL, a URL
\* of another host or two entries of one normalized form, and holds at
\* most limit entries when limit > 0.
C8_ExtractorResult_Original ==
    extracted
    => /\ Cleaned(url) \notin Links
       /\ \A link \in Links : urlparse(link).netloc = urlparse(url).netloc
       /\ \A i, j \in 1..Len(related_links) :
            Cleaned(related_links[i]) = Cleaned(related_links[j]) => i = j
       /\ max_links > 0 => Len(related_links) <= max_links

\* C9: the fallback tier runs exactly when the first tier admits nothing,
\* and the result is drawn from the one tier that produced it (all of it
\* when there is no limit); when only the fallback tier admits something
\* the result is not empty.
C9_TierSelection ==
    LET FirstNonEmptyWins(tier1, tier2) ==
            /\ tier2_ran <=> tier1 = {}
            /\ ~tier2_ran => /\ Links \subseteq tier1
                             /\ max_links <= 0 => Links = tier1
            /\ tier2_ran => /\ Links \subseteq tier2
                            /\ max_links <= 0 => Links = tier2
            /\ (tier1 = {} /\ tier2 # {}) => related_links # <<>>
        Of(candidates) ==
            FirstNonEmptyWins(Tier1Of(candidates),
                              Tier2Of(candidates, RStrip(url, "/")))
    IN  extracted => Of(Candidates)

\* no admissible anchor inside <article>, though there is an anchor there,
\* and the fallback set is returned
C9_Witness ==
    /\ extracted
    /\ tier2_ran
    /\ related_links # <<>>
    /\ \E i \in 1..Len(main_html) : main_html[i].in_article

\* C10 as claimed: in the fallback tier, without a limit, a same-host,
\* non-self anchor is in the result if its path starts with the base URL's
\* path, and otherwise only if its path holds /news or /briefing-room.
C10_FallbackAdmission_Original ==
    (extracted /\ tier2_ran /\ max_links <= 0)
    => \A i \in 1..Len(main_html) :
        (SameHost(main_html[i]) /\ NotSelf(main_html[i]))
        => IF StartsWith(urlparse(Href(main_html[i])).path, urlparse(url).path)
           THEN Cleaned(Href(main_html[i])) \in Links
           ELSE Cleaned(Href(main_html[i])) \in Links => HasMarker(main_html[i])

-----------------------------------------------------------------------------
(* Properties of the Manifest Logger and the Filename Deriver.             *)

ReachedLogging(a) == a.already_local \/ a.wrote

\* C11 as claimed: log_archive never raises because of the timestamp: every
\* call that reaches the logging step (the file found stored, or written)
\* returns the path, its row written with the ISO form of the timestamp or
\* with the current time.
C11_LoggerNeverRaises_Original ==
    \A i \in 1..Len(attempts) :
        ReachedLogging(attempts[i])
        => attempts[i].outcome = "path" /\ attempts[i].fail = "none"

\* C12 as claimed: local files are one per (URL, timestamp): a call finds
\* its file already stored only if the file was written for the same URL.
C12_OneFilePerUrl_Original ==
    \A i, j \in 1..Len(attempts) :
        (/\ i < j
         /\ attempts[i].wrote
         /\ attempts[j].already_local
         /\ attempts[i].filename = attempts[j].filename)
        => attempts[i].url = attempts[j].url

-----------------------------------------------------------------------------
(* The Filename Deriver on its own: the call of sanitize_filename at line  *)
(* 86, for every URL and capture timestamp drawn below.                    *)

NameUrls ==
    {Chars("https://h/news"), Chars("https://h/news/"), Chars("https://h:8080/news"),
     Chars("https://h"), Chars("https://h/"), Chars("https://h/a/b.html"),
     Chars("https://h/index.html"), Chars("https://h//a//b"), Chars("https://h/a:b/c"),
     Chars("https://u:p@h/x"), Chars("h/news"), Chars("https://h/news?q=a:b#f:g")}

\* what the capture service may report as its timestamp; <<>> is None
TsIso == Chars("2024-01-01T12:00:00")
TsHtml == Chars("x.html")
NameTimestamps == {<<>>, TsGood, TsBadDate, TsIso, TsHtml}

\* the seed's archive_with_wayback call after the capture request
NameInit ==
    /\ pc = "archive_seed"
    /\ url \in NameUrls
    /\ max_links = 0
    /\ installed = TRUE
    /\ fetch = "ok"
    /\ main_html = <<>>
    /\ related_links = <<>>
    /\ extracted = FALSE
    /\ tier2_ran = FALSE
    /\ idx = 0
    /\ error = "none"
    /\ \E ts \in NameTimestamps :
        frame = [Idle EXCEPT !.step = "saved", !.caller = "seed", !.url = url,
                             !.archived_url = ArchiveUrl(url, ts), !.timestamp = ts]
    /\ files = {}
    /\ manifest = <<>>
    /\ attempts = <<>>
    /\ writes = <<>>
    /\ returned = <<>>
    /\ run = 1
    /\ runStart = [files |-> {}, manifest |-> <<>>]

NameNext == ResolveCapture

NameSpec == NameInit /\ [][NameNext]_vars

\* C13: sanitize_filename is total and a function of (url, timestamp)
\* alone: for every URL and optional timestamp it yields a name, the name
\* the two arguments determine, that ends in ".html" and holds no ":".
C13_FilenameShape ==
    frame.step = "download"
    => /\ frame.filename = sanitize_filename(frame.url, frame.timestamp)
       /\ EndsWith(frame.filename, DotHtml)
       /\ ":" \notin Range(frame.filename)

\* a URL with a port, a timestamp with colons
C13_Witness ==
    /\ frame.step = "download"
    /\ frame.url = Chars("https://h:8080/news")
    /\ frame.timestamp = TsIso
    /\ frame.filename = Chars("h_8080_news_2024-01-01T12_00_00.html")

-----------------------------------------------------------------------------
(* Properties of whole runs.                                               *)

RunEnded == pc \in {"done", "raised"}

\* the run waits on a capture request that does not return: ArchiveSeed,
\* ArchiveLink and LoopEnd need an idle frame, the steps of the call need a
\* frame past the request, NewRun needs an ended run, so no step is left
WaitsForEver == frame.step = "blocked" /\ ~RunEnded

\* C14 as claimed: every run terminates: no network operation blocks for
\* ever, so no run is left waiting on one before it has reached its end,
\* and a run makes at most one attempt for the seed and one per extracted
\* link.
C14_RunTerminates_Original ==
    /\ ~WaitsForEver
    /\ Len(attempts) <= 1 + Len(related_links)

IsPrefix(s, t) == Len(s) <= Len(t) /\ SubSeq(t, 1, Len(s)) = s

Returned(a) == a.outcome = "path"

\* the rows appended since the run started
RowsOfRun ==
    SelectSeq(SubSeq(manifest, Len(runStart.manifest) + 1, Len(manifest)), IsRow)

\* the rows of the run are those of its calls that logged, in their order
InOrderOfCompletion ==
    LET Same(rows, calls) ==
            /\ Len(rows) = Len(calls)
            /\ \A k \in 1..Len(rows) :
                rows[k][2] = calls[k].url /\ rows[k][4] = calls[k].filename
    IN  Same(RowsOfRun, SelectSeq(attempts, Returned))

\* C15: the manifest is append-only across attempts and runs: every step
\* leaves the lines it had in place and at most adds lines after them, and
\* the rows of a run stand in the order in which its attempts completed.
C15_AppendOnly ==
    [][IsPrefix(manifest, manifest') /\ InOrderOfCompletion']_vars

\* a second run has appended to the first run's rows, a URL twice among them
C15_Witness ==
    /\ run = 2
    /\ Len(runStart.manifest) >= 3
    /\ Len(manifest) > Len(runStart.manifest)
    /\ \E i, j \in 2..Len(manifest) : i < j /\ manifest[i][2] = manifest[j][2]

\* C16: the content is written before the row is appended and the row
\* before the path is returned: a call about to log has its file in place,
\* every manifest row names a file of the output directory, and every call
\* that returned a path returned that of a stored file and added its row.
C16_WriteLogReturn ==
    /\ frame.step = "log" => frame.filename \in files
    /\ \A i \in 1..Len(manifest) :
        IsRow(manifest[i]) => manifest[i][4] \in files
    /\ \A i \in 1..Len(attempts) :
        Returned(attempts[i])
        => /\ attempts[i].filename \in files
           /\ RowsAdded(attempts[i]) = 1
           /\ RowsFor(attempts[i].filename) >= 1

\* a call that downloaded, wrote and logged, and one that found the file
C16_Witness ==
    /\ frame.step = "idle"
    /\ \E i, j \in 1..Len(attempts) :
        /\ Returned(attempts[i]) /\ attempts[i].wrote
        /\ Returned(attempts[j]) /\ attempts[j].already_local

-----------------------------------------------------------------------------
(* The limit of the Link Extractor (ExtractSpec).                          *)

FirstK(links, k) == SubSeq(links, 1, IF k < Len(links) THEN k ELSE Len(links))

\* C17: the limit is a prefix cut: for a limit k > 0 the result is the
\* first k entries (all, if fewer) of the result without limit, in the same
\* order; for a limit <= 0 the result is that whole list, which holds
\* every link its tier admits.
C17_LimitIsPrefixCut ==
    LET Cut(unlimited, tier1, tier2) ==
            /\ max_links > 0 => related_links = FirstK(unlimited, max_links)
            /\ max_links <= 0 => related_links = unlimited
            /\ Range(unlimited) = IF tier1 # {} THEN tier1 ELSE tier2
        Of(candidates) ==
            Cut(extract_related_links(url, main_html, 0).links,
                Tier1Of(candidates), Tier2Of(candidates, RStrip(url, "/")))
    IN  extracted => Of(Candidates)

\* a limit of 1 cut a page of two admissible links down to its first
C17_Witness ==
    /\ extracted
    /\ max_links = 1
    /\ Len(related_links) = 1
    /\ Len(extract_related_links(url, main_html, 0).links) = 2

-----------------------------------------------------------------------------
(* Attempts of a run (Spec).                                               *)

\* C18 as claimed: a run that completes has called archive_with_wayback
\* once for the seed and once for each extracted link, 1 + |LinkSet| calls
\* in all (at most 1 + max_links when max_links > 0), and, the links being
\* distinct and none of them the seed, has submitted no URL twice.
C18_SingleAttemptPerUrl_Original ==
    pc = "done"
    => /\ Len(attempts) = 1 + Len(related_links)
       /\ max_links > 0 => Len(attempts) <= 1 + max_links
       /\ attempts[1].url = url /\ attempts[1].caller = "seed"
       /\ \A i \in 1..Len(related_links) : attempts[i + 1].url = related_links[i]
       /\ \A i, j \in 1..Len(attempts) :
            Cleaned(attempts[i].url) = Cleaned(attempts[j].url) => i = j

====
